---------------------------- MODULE Spec2Model ----------------------------
(***************************************************************************)
(* RicAI code store: five SuperAGI tools around a Weaviate class           *)
(* "Codefile" and the GitHub contents API.                                  *)
(*                                                                         *)
(*   update           walks a repository tree and batch-writes its files   *)
(*   read-all         every record of a repository                         *)
(*   search-location  records of a repository whose path matches *P*       *)
(*   read-latest      records of a repository touched by a commit          *)
(*   semantic-search  records of a repository near an embedded context     *)
(*                                                                         *)
(* Python str values are TLA+ strings (\o, Len, SubSeq).  A Python value   *)
(* whose type matters (the "repo" property, a helper's return value, a     *)
(* raised exception) is a record [t |-> type name, v |-> text].            *)
(***************************************************************************)
EXTENDS Integers, Sequences, FiniteSets, TLC

VARIABLES
    tree,       \* hosting service: the file tree of the hosted repository
    index,      \* Weaviate class "Codefile": uuid -> stored object
    pc,         \* position of the running _execute: idle, walk, write
    repository, \* argument of the running update call
    contents,   \* upsert_codebase: work queue of entries
    codefiles,  \* upsert_codebase: records queued for the batch write
    pending,    \* upsert_codebase: codefiles the batch loop has not reached
    batch,      \* objects added to the open weaviate batch
    indexAtCall,\* the index when the running call began
    last,       \* the call that completed last
    prev,       \* the call that completed before it
    listed,     \* upsert_codebase: the directories get_contents has listed
    examined,   \* upsert_codebase: the entries popped that are no directory
    other       \* the locals of a second _execute(update) in progress

vars == <<tree, index, pc, repository, contents, codefiles, pending, batch,
          indexAtCall, last, prev, listed, examined, other>>

-----------------------------------------------------------------------------
(* Python values and strings *)

PyStr(s) == [t |-> "str", v |-> s]

PyTrue == [t |-> "bool", v |-> "True"]

PyInt(n) == [t |-> "int", v |-> ToString(n)]

\* github.Repository.Repository, the value of ContentFile.repository
RepositoryObject(full_name) == [t |-> "Repository", v |-> full_name]

\* str(x), as an f-string or generate_uuid5 applies it
Str(x) ==
    IF x.t = "Repository" THEN "Repository(full_name=\"" \o x.v \o "\")"
    ELSE x.v

Char(s, i) == SubSeq(s, i, i)

UpperChars == "ABCDEFGHIJKLMNOPQRSTUVWXYZ"

LowerChars == "abcdefghijklmnopqrstuvwxyz"

LowerChar(c) ==
    IF \E i \in 1..Len(UpperChars) : Char(UpperChars, i) = c
    THEN Char(LowerChars, CHOOSE i \in 1..Len(UpperChars) : Char(UpperChars, i) = c)
    ELSE c

RECURSIVE Lower(_)
\* str.lower()
Lower(s) ==
    IF Len(s) = 0 THEN ""
    ELSE LowerChar(Char(s, 1)) \o Lower(SubSeq(s, 2, Len(s)))

\* str.rfind of a one-character string: 0 when absent (Python's -1)
RFind(s, c) ==
    IF \E i \in 1..Len(s) : Char(s, i) = c
    THEN CHOOSE i \in 1..Len(s) :
            /\ Char(s, i) = c
            /\ \A j \in (i+1)..Len(s) : Char(s, j) # c
    ELSE 0

\* os.path.splitext(p)[1]: from the last dot of the last path component,
\* unless only dots precede it in that component
SplitExt(p) ==
    LET sepIndex == RFind(p, "/")
        dotIndex == RFind(p, ".")
    IN  IF /\ dotIndex > sepIndex
           /\ \E k \in (sepIndex+1)..(dotIndex-1) : Char(p, k) # "."
        THEN SubSeq(p, dotIndex, Len(p))
        ELSE ""

\* x in s, for strings
Contains(s, p) ==
    \E i \in 1..(Len(s) - Len(p) + 1) : SubSeq(s, i, i + Len(p) - 1) = p

StartsWith(s, p) == Len(s) >= Len(p) /\ SubSeq(s, 1, Len(p)) = p

Range(q) == {q[i] : i \in 1..Len(q)}

\* the sequences that list the set S once each
Orderings(S) ==
    {q \in [1..Cardinality(S) -> S] : \A x \in S : \E i \in DOMAIN q : q[i] = x}

-----------------------------------------------------------------------------
(* The hosting service: what get_repo, get_contents and get_commit answer *)

\* GITHUB_USERNAME, the account whose repositories get_repo opens
GithubUsername == "octo"

\* the repository that exists upstream; any other name is a 404
HostedRepository == "demo"

\* the repository names a caller passes
RepositoryNames == {"demo", "lib"}

\* a ContentFile as get_contents lists it: utf8 tells whether decoded_content
\* is valid UTF-8, text is its decoding when it is
Entry(path, name, type, utf8, text) ==
    [path |-> path, name |-> name, type |-> type,
     url |-> "https://api.github.com/repos/octo/demo/contents/" \o path,
     repository |-> RepositoryObject(GithubUsername \o "/" \o HostedRepository),
     utf8 |-> utf8, text |-> text]

\* src/app.py, img/logo.png, README.md
TreeExample ==
    [d \in {"", "src", "img"} |->
        IF d = "" THEN <<Entry("src", "src", "dir", FALSE, ""),
                         Entry("img", "img", "dir", FALSE, ""),
                         Entry("README.md", "README.md", "file", TRUE, "# demo")>>
        ELSE IF d = "src" THEN <<Entry("src/app.py", "app.py", "file", TRUE, "print(1)")>>
        ELSE <<Entry("img/logo.png", "logo.png", "file", FALSE, "")>>]

TreeEmpty == [d \in {""} |-> <<>>]

\* only denylisted files, in upper and mixed case
TreeBinary ==
    [d \in {"", "docs"} |->
        IF d = "" THEN <<Entry("icon.SVG", "icon.SVG", "file", TRUE, "<svg/>"),
                         Entry("logo.PNG", "logo.PNG", "file", FALSE, ""),
                         Entry("docs", "docs", "dir", FALSE, "")>>
        ELSE <<Entry("docs/spec.Pdf", "spec.Pdf", "file", FALSE, "")>>]

\* a file that is not valid UTF-8 behind a decodable one, a dot-file, a
\* symbolic link, a double extension
TreeMixed ==
    [d \in {"", "d"} |->
        IF d = "" THEN <<Entry("a.py", "a.py", "file", TRUE, "x = 1"),
                         Entry("d", "d", "dir", FALSE, ""),
                         Entry(".png", ".png", "file", TRUE, "dot"),
                         Entry("ln", "ln", "symlink", TRUE, "a.py")>>
        ELSE <<Entry("d/z.tar.gz", "z.tar.gz", "file", FALSE, ""),
               Entry("d/bad.txt", "bad.txt", "file", FALSE, "")>>]

\* the deepest chain of nested directories a generated tree has
MaxDepth == 2

RECURSIVE DirPath(_)
\* the directory at level k of a chain: "", "d1", "d1/d2", ...
DirPath(k) ==
    IF k = 0 THEN ""
    ELSE IF k = 1 THEN "d1"
    ELSE DirPath(k - 1) \o "/d" \o ToString(k)

\* the path of the entry called name in directory dir
InDir(dir, name) == IF dir = "" THEN name ELSE dir \o "/" \o name

\* a chain of n nested directories, a module in each level above the last
\* and an archive in the last
TreeNested(n) ==
    [d \in {DirPath(k) : k \in 0..n} |->
        LET k == CHOOSE j \in 0..n : DirPath(j) = d IN
        IF k < n
        THEN <<Entry(InDir(d, "m.py"), "m.py", "file", TRUE, "level = " \o ToString(k)),
               Entry(DirPath(k + 1), "d" \o ToString(k + 1), "dir", FALSE, "")>>
        ELSE <<Entry(InDir(d, "x.ZIP"), "x.ZIP", "file", FALSE, "")>>]

Trees ==
    {TreeExample, TreeEmpty, TreeBinary, TreeMixed}
        \cup {TreeNested(n) : n \in 1..MaxDepth}

\* every entry of tree t
Entries(t) == UNION {Range(t[d]) : d \in DOMAIN t}

\* commit.files of the one commit the repository has
CommitSha == "c1"

CommitFiles ==
    <<[filename |-> "src/app.py", status |-> "modified"],
      [filename |-> "old/gone.py", status |-> "removed"],
      [filename |-> "README.md", status |-> "added"]>>

\* an exception instance; Str gives str(err)
Exc(kind, msg) == [t |-> kind, v |-> msg]

NotFound == Exc("UnknownObjectException", "404 {\"message\": \"Not Found\"}")

TransportError == Exc("ConnectionError", "Connection aborted.")

DecodeError == Exc("UnicodeDecodeError", "'utf-8' codec can't decode byte 0x89 in position 0: invalid start byte")

\* str(KeyError(k)) is repr(k)
KeyError(k) == Exc("KeyError", "'" \o k \o "'")

-----------------------------------------------------------------------------
(* The vector store *)

\* weaviate.util.generate_uuid5: uuid5 of str(namespace) + str(identifier)
\* (the identifier is a str here)
Uuid5(identifier, namespace) == "uuid5:" \o Str(namespace) \o identifier

\* create-or-replace of one object under its uuid
Put(idx, uuid, obj) ==
    {e \in idx : e.uuid # uuid} \cup {[uuid |-> uuid, obj |-> obj]}

\* a record as a client that names the repository by its string writes it
Stored(path, repo, content) ==
    [uuid |-> Uuid5(path, PyStr(repo)),
     obj |-> [file_path |-> path,
              github_url |-> "https://api.github.com/repos/octo/" \o repo \o "/contents/" \o path,
              type |-> "file", repo |-> PyStr(repo), content |-> content]]

IndexEmpty == {}

IndexSeeded ==
    {Stored("src/app.py", "demo", "print(0)"),
     Stored("old/gone.py", "demo", "pass"),
     Stored("app/lib.py", "lib", "import app")}

InitialIndexes == {IndexEmpty, IndexSeeded}

\* whether requests can encode the object as JSON: every property is a str
Serializable(obj) == obj.repo.t = "str"

NotSerializable == Exc("TypeError", "Object of type Repository is not JSON serializable")

\* the objects of a batch, written create-or-replace in the order added
RECURSIVE PutAll(_, _)
PutAll(idx, objs) ==
    IF objs = <<>> THEN idx
    ELSE PutAll(Put(idx, Head(objs).uuid, Head(objs).obj), Tail(objs))

\* Batch.__exit__ -> flush: one request carrying every object added; an empty
\* batch sends nothing.  fail is a transport failure of that request.
Flush(idx, objs, fail) ==
    IF objs = <<>> THEN [idx |-> idx, exc |-> <<>>]
    ELSE IF \E i \in DOMAIN objs : ~Serializable(objs[i].obj)
         THEN [idx |-> idx, exc |-> <<NotSerializable>>]
    ELSE IF fail THEN [idx |-> idx, exc |-> <<TransportError>>]
    ELSE [idx |-> PutAll(idx, objs), exc |-> <<>>]

\* the objects a where-filter "repo Equal name" selects
WhereRepo(idx, name) == {e.obj : e \in {x \in idx : x.obj.repo = PyStr(name)}}

\* the order in which the store lists a result set
Listed(S) == CHOOSE q \in Orderings(S) : TRUE

RECURSIVE JsonEscape(_)
JsonEscape(s) ==
    IF Len(s) = 0 THEN ""
    ELSE (IF Char(s, 1) \in {"\"", "\\"} THEN "\\" ELSE "") \o Char(s, 1)
         \o JsonEscape(SubSeq(s, 2, Len(s)))

JsonString(s) == "\"" \o JsonEscape(s) \o "\""

\* one object with the properties the queries ask for, in that order
JsonObject(o) ==
    "{\"file_path\": " \o JsonString(o.file_path)
    \o ", \"github_url\": " \o JsonString(o.github_url)
    \o ", \"type\": " \o JsonString(o.type)
    \o ", \"repo\": " \o JsonString(o.repo.v)
    \o ", \"content\": " \o JsonString(o.content) \o "}"

RECURSIVE JsonItems(_)
JsonItems(q) ==
    IF q = <<>> THEN ""
    ELSE IF Len(q) = 1 THEN JsonObject(q[1])
    ELSE JsonObject(q[1]) \o ", " \o JsonItems(Tail(q))

\* json.dumps of a list of objects
JsonDumps(q) == "[" \o JsonItems(q) \o "]"

-----------------------------------------------------------------------------
(* _execute: the helper's outcome and the try/except around it *)

Raise(exc) == [raised |-> TRUE, value |-> exc]

Return(val) == [raised |-> FALSE, value |-> val]

\* a handler for the hosting service's failures only
CatchesRequestErrors(kind) ==
    kind \in {"UnknownObjectException", "ConnectionError"}

\* the classes "except Exception" catches: every exception modelled here
Catches(kind) ==
    kind \in {"UnknownObjectException", "ConnectionError", "UnicodeDecodeError",
              "KeyError", "TypeError"}

UpdateErrorPrefix == "Error: Unable to update codebase with latest code - "

UpdateSuccessPrefix == "Codebase updated successfully - "

SearchErrorPrefix == "Error: Unable to search codebase - "

\* update: return f'Codebase updated successfully - {result}' / except.
\* text is the string returned, escaped whether the exception left _execute
\* instead, cause the class of the exception raised ("" when none was)
UpdateExecute(outcome) ==
    IF outcome.raised
    THEN IF Catches(outcome.value.t)
         THEN [escaped |-> FALSE, cause |-> outcome.value.t,
               text |-> UpdateErrorPrefix \o Str(outcome.value)]
         ELSE [escaped |-> TRUE, cause |-> outcome.value.t, text |-> ""]
    ELSE [escaped |-> FALSE, cause |-> "",
          text |-> UpdateSuccessPrefix \o Str(outcome.value)]

\* the read tools: return result / except
SearchExecute(outcome) ==
    IF outcome.raised
    THEN IF Catches(outcome.value.t)
         THEN [escaped |-> FALSE, cause |-> outcome.value.t,
               text |-> SearchErrorPrefix \o Str(outcome.value)]
         ELSE [escaped |-> TRUE, cause |-> outcome.value.t, text |-> ""]
    ELSE [escaped |-> FALSE, cause |-> "", text |-> Str(outcome.value)]

\* a call that runs the body whatever the number of arguments
CallUnchecked(fname, params, args, body) == body

\* a call of a nested def: the arguments are bound to the parameters first,
\* and one argument too few is a TypeError raised before the body runs
Call(fname, params, args, body) ==
    IF Len(args) = Len(params) THEN body
    ELSE Raise(Exc("TypeError",
            fname \o "() missing 1 required positional argument: '"
            \o params[Len(params)] \o "'"))

-----------------------------------------------------------------------------
(* The update tool *)

IgnoreExtensions ==
    {".jpg", ".jpeg", ".png", ".gif", ".bmp", ".tiff", ".ico", ".svg",
     ".mp4", ".avi", ".mkv", ".mov", ".wmv", ".flv",
     ".mp3", ".wav", ".ogg", ".aac", ".flac", ".wma",
     ".pdf", ".doc", ".docx", ".ppt", ".pptx", ".xls", ".xlsx", ".odt", ".ods", ".odp",
     ".zip", ".rar", ".tar", ".gz", ".7z",
     ".exe", ".dll", ".app", ".apk", ".iso", ".img", ".dmg"}

\* Extension without the lower-casing
ExtensionAsWritten(file) == SplitExt(file.name)

\* extension = os.path.splitext(file.name)[1].lower()
Extension(file) == Lower(SplitExt(file.name))

\* whether the walk skips the entry: extension in ignore_extensions
Ignored(file) == Extension(file) \in IgnoreExtensions

\* Codefile with the type written as the literal "file"
CodefileTaggedFile(file) ==
    [file_path |-> file.path, github_url |-> file.url, type |-> "file",
     repo |-> file.repository, content |-> file.text]

\* the dict appended to codefiles
Codefile(file) ==
    [file_path |-> file.path, github_url |-> file.url, type |-> file.type,
     repo |-> file.repository, content |-> file.text]

\* the key the records do carry
IdentifierKeyFilePath == "file_path"

\* the key of the record the uuid is derived from: codefile["path"]
IdentifierKey == "path"

\* a call that has returned, as the caller and the store saw it; concurrent
\* tells whether another update call was in progress when it returned
Completed(tool, repo, arg, res, phase, queued, after) ==
    [tool |-> tool, repository |-> repo, arg |-> arg,
     text |-> res.text, escaped |-> res.escaped, cause |-> res.cause,
     phase |-> phase, queued |-> queued,
     before |-> indexAtCall, after |-> after,
     concurrent |-> other.pc # "idle"]

NoCall ==
    [tool |-> "none", repository |-> "", arg |-> "", text |-> "",
     escaped |-> FALSE, cause |-> "", phase |-> "none", queued |-> <<>>,
     before |-> {}, after |-> {}, concurrent |-> FALSE]

\* the locals of an update call that is not running
NoLocals ==
    [pc |-> "idle", repository |-> "", contents |-> <<>>, codefiles |-> <<>>,
     pending |-> <<>>, batch |-> <<>>, indexAtCall |-> {},
     listed |-> <<>>, examined |-> <<>>]

\* _execute returns: the call is recorded and its locals are gone
Finish(entry) ==
    /\ last' = entry
    /\ prev' = last
    /\ pc' = "idle"
    /\ repository' = ""
    /\ contents' = <<>>
    /\ codefiles' = <<>>
    /\ pending' = <<>>
    /\ batch' = <<>>
    /\ indexAtCall' = index'
    /\ listed' = <<>>
    /\ examined' = <<>>

\* _execute(repository): get_repo and the listing of the root
UpdateStart ==
    \E r \in RepositoryNames, fail \in BOOLEAN :
        /\ pc = "idle"
        /\ UNCHANGED <<tree, index, other>>
        /\ IF r # HostedRepository
           THEN Finish(Completed("update", r, "", UpdateExecute(Raise(NotFound)),
                                 "open", <<>>, index))
           ELSE IF fail
           THEN Finish(Completed("update", r, "", UpdateExecute(Raise(TransportError)),
                                 "walk", <<>>, index))
           ELSE /\ pc' = "walk"
                /\ repository' = r
                /\ contents' = tree[""]
                /\ codefiles' = <<>>
                /\ listed' = <<"">>
                /\ examined' = <<>>
                /\ UNCHANGED <<pending, batch, indexAtCall, last, prev>>

\* WalkDir with the queue replaced by the directory's children, not extended
WalkDirReplacing ==
    \E fail \in BOOLEAN :
        /\ pc = "walk"
        /\ contents # <<>>
        /\ Head(contents).type = "dir"
        /\ UNCHANGED <<tree, index, other>>
        /\ IF fail
           THEN Finish(Completed("update", repository, "",
                                 UpdateExecute(Raise(TransportError)),
                                 "walk", codefiles, index))
           ELSE /\ contents' = tree[Head(contents).path]
                /\ listed' = Append(listed, Head(contents).path)
                /\ UNCHANGED <<pc, repository, codefiles, pending, batch,
                               indexAtCall, last, prev, examined>>

\* while contents: file = contents.pop(0); a directory
WalkDir ==
    \E fail \in BOOLEAN :
        /\ pc = "walk"
        /\ contents # <<>>
        /\ Head(contents).type = "dir"
        /\ UNCHANGED <<tree, index, other>>
        /\ IF fail
           THEN Finish(Completed("update", repository, "",
                                 UpdateExecute(Raise(TransportError)),
                                 "walk", codefiles, index))
           ELSE /\ contents' = Tail(contents) \o tree[Head(contents).path]
                /\ listed' = Append(listed, Head(contents).path)
                /\ UNCHANGED <<pc, repository, codefiles, pending, batch,
                               indexAtCall, last, prev, examined>>

\* WalkFile with each record written to the store as soon as it is queued
WalkFileEager ==
    \E fail \in BOOLEAN :
        /\ pc = "walk"
        /\ contents # <<>>
        /\ Head(contents).type # "dir"
        /\ UNCHANGED <<tree, other>>
        /\ LET file == Head(contents) IN
           IF Ignored(file)
           THEN /\ contents' = Tail(contents)
                /\ examined' = Append(examined, file.path)
                /\ UNCHANGED <<index, pc, repository, codefiles, pending, batch,
                               indexAtCall, last, prev, listed>>
           ELSE IF fail \/ ~file.utf8
           THEN /\ UNCHANGED index
                /\ Finish(Completed("update", repository, "",
                                 UpdateExecute(Raise(IF fail THEN TransportError
                                                     ELSE DecodeError)),
                                 "walk", codefiles, index))
           ELSE /\ contents' = Tail(contents)
                /\ codefiles' = Append(codefiles, Codefile(file))
                /\ index' = Put(index, Uuid5(file.path, PyStr(repository)),
                                [Codefile(file) EXCEPT !.repo = PyStr(repository)])
                /\ examined' = Append(examined, file.path)
                /\ UNCHANGED <<pc, repository, pending, batch,
                               indexAtCall, last, prev, listed>>

\* while contents: file = contents.pop(0); anything but a directory.
\* fail is a failed fetch of the content, file.utf8 whether it decodes.
WalkFile ==
    \E fail \in BOOLEAN :
        /\ pc = "walk"
        /\ contents # <<>>
        /\ Head(contents).type # "dir"
        /\ UNCHANGED <<tree, index, other>>
        /\ LET file == Head(contents) IN
           IF Ignored(file)
           THEN /\ contents' = Tail(contents)
                /\ examined' = Append(examined, file.path)
                /\ UNCHANGED <<pc, repository, codefiles, pending, batch,
                               indexAtCall, last, prev, listed>>
           ELSE IF fail \/ ~file.utf8
           THEN Finish(Completed("update", repository, "",
                                 UpdateExecute(Raise(IF fail THEN TransportError
                                                     ELSE DecodeError)),
                                 "walk", codefiles, index))
           ELSE /\ contents' = Tail(contents)
                /\ codefiles' = Append(codefiles, Codefile(file))
                /\ examined' = Append(examined, file.path)
                /\ UNCHANGED <<pc, repository, pending, batch,
                               indexAtCall, last, prev, listed>>

\* the queue is empty: with self.w_client.batch() as batch
WalkEnd ==
    /\ pc = "walk"
    /\ contents = <<>>
    /\ pc' = "write"
    /\ pending' = codefiles
    /\ batch' = <<>>
    /\ UNCHANGED <<tree, index, repository, contents, codefiles,
                   indexAtCall, last, prev, listed, examined, other>>

\* for codefile in codefiles: batch.add_data_object(..., uuid=generate_uuid5(
\* identifier=codefile["path"], namespace=codefile["repo"])).  A missing key
\* raises before the call; the with block then flushes what the batch holds.
WriteStep ==
    \E fail \in BOOLEAN :
        /\ pc = "write"
        /\ pending # <<>>
        /\ UNCHANGED <<tree, other>>
        /\ LET codefile == Head(pending) IN
           IF IdentifierKey \notin DOMAIN codefile
           THEN LET fl == Flush(index, batch, fail)
                    exc == IF fl.exc # <<>> THEN fl.exc[1] ELSE KeyError(IdentifierKey)
                IN  /\ index' = fl.idx
                    /\ Finish(Completed("update", repository, "",
                                        UpdateExecute(Raise(exc)),
                                        "write", codefiles, fl.idx))
           ELSE /\ batch' = Append(batch,
                        [uuid |-> Uuid5(codefile[IdentifierKey], codefile.repo),
                         obj |-> codefile])
                /\ pending' = Tail(pending)
                /\ UNCHANGED <<index, pc, repository, contents, codefiles,
                               indexAtCall, last, prev, listed, examined>>

\* the number of records queued, as the value returned
UpsertCount(queued) == PyInt(Len(queued))

\* the value upsert_codebase returns
UpsertResult(queued) == PyTrue

\* WriteEnd that also deletes the repository's records whose file the walk
\* did not queue
WriteEndSync ==
    \E fail \in BOOLEAN :
        /\ pc = "write"
        /\ pending = <<>>
        /\ UNCHANGED <<tree, other>>
        /\ LET fl == Flush(index, batch, fail)
               kept == {e \in fl.idx :
                          \/ e.obj.repo # PyStr(repository)
                          \/ \E i \in DOMAIN codefiles :
                                codefiles[i].file_path = e.obj.file_path}
           IN
           /\ index' = kept
           /\ Finish(Completed("update", repository, "",
                        UpdateExecute(IF fl.exc # <<>> THEN Raise(fl.exc[1])
                                      ELSE Return(UpsertResult(codefiles))),
                        IF fl.exc # <<>> THEN "write" ELSE "none",
                        codefiles, kept))

\* the loop is over: the with block flushes the batch; return True
WriteEnd ==
    \E fail \in BOOLEAN :
        /\ pc = "write"
        /\ pending = <<>>
        /\ UNCHANGED <<tree, other>>
        /\ LET fl == Flush(index, batch, fail) IN
           /\ index' = fl.idx
           /\ Finish(Completed("update", repository, "",
                        UpdateExecute(IF fl.exc # <<>> THEN Raise(fl.exc[1])
                                      ELSE Return(UpsertResult(codefiles))),
                        IF fl.exc # <<>> THEN "write" ELSE "none",
                        codefiles, fl.idx))

-----------------------------------------------------------------------------
(* The read tools.  Each helper is one query; fail is a failed request. *)

\* the path fragments, commit references and contexts a caller passes
Locations == {"app", "READ"}

Branches == {"c1", "main"}

Contexts == {"entry point"}

\* retrieve_all_code(self, ghub_repo_name)
RetrieveAllCode(idx, ghub_repo_name, fail) ==
    IF fail THEN Raise(TransportError)
    ELSE Return(PyStr(JsonDumps(Listed(WhereRepo(idx, ghub_repo_name)))))

\* retrieve_code_by_location(self, ghub_repo_name, location):
\* repo Equal name And file_path Like *location*
RetrieveCodeByLocation(idx, ghub_repo_name, location, fail) ==
    IF fail THEN Raise(TransportError)
    ELSE Return(PyStr(JsonDumps(Listed(
            {o \in WhereRepo(idx, ghub_repo_name) : Contains(o.file_path, location)}))))

\* the filenames of the commit whose status is not "removed"
RelevantFiles ==
    {CommitFiles[i].filename :
        i \in {j \in DOMAIN CommitFiles : CommitFiles[j].status # "removed"}}

\* retrieve_latest_commit_code(self, ghub_repo_name, sha)
RetrieveLatestCommitCode(idx, ghub_repo_name, sha, fail) ==
    IF ghub_repo_name # HostedRepository \/ sha # CommitSha THEN Raise(NotFound)
    ELSE IF fail THEN Raise(TransportError)
    ELSE Return(PyStr(JsonDumps(
            SelectSeq(Listed(WhereRepo(idx, ghub_repo_name)),
                      LAMBDA f : f.file_path \in RelevantFiles))))

\* semantic_code_search(self, ghub_repo_name, context): the repository's
\* objects in the order the store ranks them against the embedded context
SemanticCodeSearch(idx, ghub_repo_name, context, fail) ==
    IF fail THEN Raise(TransportError)
    ELSE Return(PyStr(JsonDumps(Listed(WhereRepo(idx, ghub_repo_name)))))

\* read-all: result = retrieve_all_code(repository)
ReadAll ==
    \E r \in RepositoryNames, fail \in BOOLEAN :
        /\ pc = "idle"
        /\ UNCHANGED <<tree, index, other>>
        /\ Finish(Completed("read_all", r, "",
                SearchExecute(Call("retrieve_all_code",
                                   <<"self", "ghub_repo_name">>, <<r>>,
                                   RetrieveAllCode(index, r, fail))),
                "none", <<>>, index))

\* search-by-location: result = retrieve_code_by_location(repository, location)
ClassicSearch ==
    \E r \in RepositoryNames, location \in Locations, fail \in BOOLEAN :
        /\ pc = "idle"
        /\ UNCHANGED <<tree, index, other>>
        /\ Finish(Completed("classic_search", r, location,
                SearchExecute(Call("retrieve_code_by_location",
                                   <<"self", "ghub_repo_name", "location">>,
                                   <<r, location>>,
                                   RetrieveCodeByLocation(index, r, location, fail))),
                "none", <<>>, index))

\* read-latest-commit: result = retrieve_latest_commit_code(repository, branch)
ReadLatest ==
    \E r \in RepositoryNames, branch \in Branches, fail \in BOOLEAN :
        /\ pc = "idle"
        /\ UNCHANGED <<tree, index, other>>
        /\ Finish(Completed("read_latest", r, branch,
                SearchExecute(Call("retrieve_latest_commit_code",
                                   <<"self", "ghub_repo_name", "sha">>,
                                   <<r, branch>>,
                                   RetrieveLatestCommitCode(index, r, branch, fail))),
                "none", <<>>, index))

\* semantic-search: result = semantic_code_search(repository, context)
SemanticSearch ==
    \E r \in RepositoryNames, context \in Contexts, fail \in BOOLEAN :
        /\ pc = "idle"
        /\ UNCHANGED <<tree, index, other>>
        /\ Finish(Completed("semantic_search", r, context,
                SearchExecute(Call("semantic_code_search",
                                   <<"self", "ghub_repo_name", "context">>,
                                   <<r, context>>,
                                   SemanticCodeSearch(index, r, context, fail))),
                "none", <<>>, index))

-----------------------------------------------------------------------------
(* The system *)

Init ==
    /\ tree \in Trees
    /\ index \in InitialIndexes
    /\ pc = "idle"
    /\ repository = ""
    /\ contents = <<>>
    /\ codefiles = <<>>
    /\ pending = <<>>
    /\ batch = <<>>
    /\ indexAtCall = index
    /\ last = NoCall
    /\ prev = NoCall
    /\ listed = <<>>
    /\ examined = <<>>
    /\ other = NoLocals

Next ==
    \/ UpdateStart
    \/ WalkDir
    \/ WalkFile
    \/ WalkEnd
    \/ WriteStep
    \/ WriteEnd
    \/ ReadAll
    \/ ClassicSearch
    \/ ReadLatest
    \/ SemanticSearch

Spec == Init /\ [][Next]_vars

\* the update tool alone
UpdateNext ==
    \/ UpdateStart
    \/ WalkDir
    \/ WalkFile
    \/ WalkEnd
    \/ WriteStep
    \/ WriteEnd

\* two update calls in progress at once: the call that was running is
\* suspended with its locals and the other one runs on (or may start)
Switch ==
    /\ pc # "idle" \/ other.pc # "idle"
    /\ other' = IF pc = "idle" THEN NoLocals
                ELSE [pc |-> pc, repository |-> repository, contents |-> contents,
                      codefiles |-> codefiles, pending |-> pending, batch |-> batch,
                      indexAtCall |-> indexAtCall,
                      listed |-> listed, examined |-> examined]
    /\ pc' = other.pc
    /\ repository' = other.repository
    /\ contents' = other.contents
    /\ codefiles' = other.codefiles
    /\ pending' = other.pending
    /\ batch' = other.batch
    /\ indexAtCall' = IF other.pc = "idle" THEN index ELSE other.indexAtCall
    /\ listed' = other.listed
    /\ examined' = other.examined
    /\ UNCHANGED <<tree, index, last, prev>>

\* the update tool called from two callers
ConcurrentNext ==
    \/ UpdateStart
    \/ WalkDir
    \/ WalkFile
    \/ WalkEnd
    \/ WriteStep
    \/ WriteEnd
    \/ Switch

ConcurrentSpec == Init /\ [][ConcurrentNext]_vars

\* _execute runs its loop to the end: a walk in progress takes its next step
FairSpec ==
    /\ Init
    /\ [][UpdateNext]_vars
    /\ WF_vars(WalkDir)
    /\ WF_vars(WalkFile)
    /\ WF_vars(WalkEnd)

-----------------------------------------------------------------------------
(* Properties *)

Objects(idx) == {e.obj : e \in idx}

\* the lists of objects of idx, each a candidate reading of a JSON array
ArraysOver(idx) == UNION {Orderings(S) : S \in SUBSET Objects(idx)}

\* the file's extension, lower-cased, is on the denylist
Denylisted(e) == Lower(SplitExt(e.name)) \in IgnoreExtensions

\* the files of the tree an ingestion is to store
StorableFiles == {e \in Entries(tree) : e.type = "file" /\ ~Denylisted(e)}

\* the record of file e in repository R
RecordOf(e, R) ==
    [file_path |-> e.path, github_url |-> e.url, type |-> "file",
     repo |-> PyStr(R), content |-> e.text]

\* the call failed on transport (a request, an unknown repository) or decoding
TransportOrDecode(call) ==
    call.cause \in {"ConnectionError", "UnknownObjectException", "UnicodeDecodeError"}

\* prev is an ingest of R free of transport and decode failures and last is
\* the read-all of R that follows it
IngestThenReadAll ==
    /\ prev.tool = "update"
    /\ ~TransportOrDecode(prev)
    /\ last.tool = "read_all"
    /\ last.repository = prev.repository

\* C1: an ingest of R (into an index holding nothing of R) that hits no
\* transport or decode failure, followed at once by read-all of R, returns
\* the JSON array of exactly one record per non-denylisted file of the tree.
C1_IngestThenReadAllReturnsTheFiles ==
    (IngestThenReadAll /\ WhereRepo(prev.before, prev.repository) = {})
        => \E q \in Orderings({RecordOf(e, last.repository) : e \in StorableFiles}) :
                last.text = JsonDumps(q)

\* last and prev are two ingests of the same repository, one after the other,
\* over the same tree, neither failing on transport or decoding
IngestTwice ==
    /\ prev.tool = "update"
    /\ last.tool = "update"
    /\ last.repository = prev.repository
    /\ ~TransportOrDecode(prev)
    /\ ~TransportOrDecode(last)

\* C2: ingesting R twice leaves the index as ingesting it once does, with the
\* same record count for R, the second run having overwritten each file's
\* record under the identifier derived from its path and R: one record per
\* stored file, never two.
C2_IngestTwiceOverwrites ==
    IngestTwice =>
        /\ last.after = prev.after
        /\ Cardinality(WhereRepo(last.after, last.repository))
             = Cardinality(WhereRepo(prev.after, prev.repository))
        /\ \A e \in StorableFiles :
              /\ Cardinality({x \in last.after :
                    /\ x.obj.file_path = e.path
                    /\ x.obj.repo = PyStr(last.repository)}) = 1
              /\ \E x \in last.after :
                    x.uuid = Uuid5(e.path, PyStr(last.repository))

\* C3: an ingest that raises during the traversal returns
\* "Error: Unable to update codebase with latest code - <cause>" and leaves
\* the index as it was; while the walk runs nothing is in the batch and the
\* index is the one the call found.
C3_FailedWalkWritesNothing ==
    /\ pc = "walk" => (index = indexAtCall /\ batch = <<>>)
    /\ (last.tool = "update" /\ last.phase = "walk") =>
          /\ ~last.escaped
          /\ \E exc \in {TransportError, DecodeError} :
                last.text = "Error: Unable to update codebase with latest code - "
                            \o Str(exc)
          /\ last.after = last.before

\* an ingest failed on a file that does not decode after it had queued a
\* record, into an index that holds records
C3_Witness ==
    /\ last.tool = "update"
    /\ last.phase = "walk"
    /\ last.cause = "UnicodeDecodeError"
    /\ last.queued # <<>>
    /\ last.before # {}

\* the records queued by the walk in progress and by the last ingest
QueuedSoFar ==
    Range(codefiles) \cup (IF last.tool = "update" THEN Range(last.queued) ELSE {})

\* C4: the walk queues a file entry if and only if its lower-cased extension
\* is not on the denylist.  Nothing denylisted in any letter case and no
\* directory is ever queued; when the walk has emptied its queue every other
\* file entry is queued; over src/app.py, img/logo.png, README.md exactly
\* src/app.py and README.md are.
C4_QueuedIffNotDenylisted ==
    /\ \A c \in QueuedSoFar :
          \E e \in Entries(tree) :
             /\ e.path = c.file_path
             /\ e.type # "dir"
             /\ ~Denylisted(e)
    /\ pc = "write" =>
          /\ \A e \in Entries(tree) :
                e.type = "file" =>
                   ((\E i \in DOMAIN codefiles : codefiles[i].file_path = e.path)
                        <=> ~Denylisted(e))
          /\ tree = TreeExample =>
                /\ Len(codefiles) = 2
                /\ {codefiles[i].file_path : i \in DOMAIN codefiles}
                        = {"src/app.py", "README.md"}

\* the walk over the example tree is complete, with its two records queued
C4_Witness ==
    /\ pc = "write"
    /\ tree = TreeExample
    /\ Len(codefiles) = 2
    /\ \E e \in Entries(tree) : e.type = "file" /\ Denylisted(e)

\* C5: search-by-location for R and P returns the JSON array of exactly the
\* indexed records whose repository is R and whose file_path contains P.
C5_SearchByLocationReturnsMatches ==
    last.tool = "classic_search" =>
        \E q \in Orderings({o \in Objects(last.before) :
                                /\ o.repo = PyStr(last.repository)
                                /\ Contains(o.file_path, last.arg)}) :
            last.text = JsonDumps(q)

\* C6: read-latest-commit for R and commit C returns the JSON array of the
\* records of R whose file_path C touched with a status other than
\* "removed"; touched paths not in the index are just absent.
C6_ReadLatestReturnsTouchedFiles ==
    (/\ last.tool = "read_latest"
     /\ last.repository = HostedRepository
     /\ last.arg = CommitSha) =>
        \E q \in Orderings({o \in WhereRepo(last.before, last.repository) :
                    \E i \in DOMAIN CommitFiles :
                        /\ CommitFiles[i].filename = o.file_path
                        /\ CommitFiles[i].status # "removed"}) :
            last.text = JsonDumps(q)

\* C7: no exception leaves _execute.  A read tool returns a JSON array of
\* records or a text beginning "Error: Unable to ", the update tool its
\* success message or such a text, and never both at once.
C7_ExecuteReturnsArrayOrError ==
    last.tool # "none" =>
        LET isError == StartsWith(last.text, "Error: Unable to ")
            isArray == \E q \in ArraysOver(last.before) : last.text = JsonDumps(q)
            isSuccess == last.text = "Codebase updated successfully - True"
        IN  /\ ~last.escaped
            /\ IF last.tool = "update" THEN isError # isSuccess
                                       ELSE isError # isArray

\* a read tool answered after an ingest whose request to the hosting service
\* failed
C7_Witness ==
    /\ prev.tool = "update"
    /\ prev.cause = "ConnectionError"
    /\ StartsWith(prev.text, "Error: Unable to ")
    /\ last.tool = "semantic_search"
    /\ last.cause # ""
    /\ StartsWith(last.text, "Error: Unable to ")

\* C8: every non-denylisted file of R comes back from read-all, right after
\* the ingest that stored it, as a record with the file's path, repository R
\* and the file's decoded text.
C8_RoundTrip ==
    IngestThenReadAll =>
        \A e \in StorableFiles :
            \E q \in ArraysOver(last.before) :
                /\ last.text = JsonDumps(q)
                /\ \E i \in DOMAIN q :
                      /\ q[i].file_path = e.path
                      /\ q[i].repo = PyStr(last.repository)
                      /\ q[i].content = e.text

\* the ingest that completed last returned its success message
IngestSucceeded == last.tool = "update" /\ last.cause = ""

\* C9 as stated: a successful ingest reports the number of records it queued
\* and wrote.
C9_SuccessReportsCount ==
    IngestSucceeded =>
        last.text = "Codebase updated successfully - " \o ToString(Len(last.queued))

\* C9: a successful ingest reports the constant True, as the text
\* "Codebase updated successfully - True", and no count.
C9_SuccessReportsTrue ==
    IngestSucceeded => last.text = "Codebase updated successfully - True"

\* an ingest succeeded over a tree that has files
C9_Witness ==
    /\ IngestSucceeded
    /\ \E e \in Entries(tree) : e.type = "file"

\* C10: no step of any tool removes a record from the index: each record
\* stays under its identifier with its path and repository.
C10_IngestNeverDeletes ==
    [][\A e \in index :
          \E x \in index' :
             /\ x.uuid = e.uuid
             /\ x.obj.file_path = e.obj.file_path
             /\ x.obj.repo = e.obj.repo]_vars

\* an ingest walked the whole tree and the index still holds a record of the
\* repository whose file the tree does not have
C10_Witness ==
    /\ last.tool = "update"
    /\ last.phase \in {"none", "write"}
    /\ \E o \in WhereRepo(last.after, last.repository) :
          \A e \in Entries(tree) : e.path # o.file_path

\* the sequence lists nothing twice
NoRepeat(q) == \A i, j \in DOMAIN q : q[i] = q[j] => i = j

\* the directories of the tree, the root among them
Directories == {""} \cup {e.path : e \in {x \in Entries(tree) : x.type = "dir"}}

\* the entries of the tree that are no directory
NonDirectories == {e.path : e \in {x \in Entries(tree) : x.type # "dir"}}

\* no directory is listed twice and no entry examined twice; every entry of a
\* listed directory is in the queue or has been taken from it; and once the
\* queue is empty every directory has been listed and every other entry
\* examined
WalkOnce ==
    /\ NoRepeat(listed)
    /\ NoRepeat(examined)
    /\ pc = "walk" =>
          \A d \in Range(listed) : \A e \in Range(tree[d]) :
             \/ e \in Range(contents)
             \/ e.path \in Range(listed) \cup Range(examined)
    /\ pc = "write" =>
          /\ Range(listed) = Directories
          /\ Range(examined) = NonDirectories

\* C11: the ingest walk terminates, and when it ends with an empty queue
\* every directory has been listed exactly once and every file entry has been
\* dequeued and examined exactly once.
C11_WalkTerminatesEveryEntryOnce ==
    /\ []WalkOnce
    /\ (pc = "walk") ~> (pc # "walk")

\* a walk over nested directories has emptied its queue
C11_Witness ==
    /\ pc = "write"
    /\ Len(listed) >= 3
    /\ Len(examined) >= 2

C13_WriteFailsOnFirstRecord ==
    /\ \A c \in QueuedSoFar : "path" \notin DOMAIN c /\ "file_path" \in DOMAIN c
    /\ pc = "write" => (batch = <<>> /\ pending = codefiles /\ index = indexAtCall)
    /\ (last.tool = "update" /\ last.phase \in {"none", "write"}) =>
          IF last.queued # <<>>
          THEN /\ last.text = "Error: Unable to update codebase with latest code - 'path'"
               /\ last.after = last.before
          ELSE last.text = "Codebase updated successfully - True"

\* an ingest walked a tree, queued two records and failed on the key, over
\* an index that holds records
C13_Witness ==
    /\ last.tool = "update"
    /\ last.cause = "KeyError"
    /\ Len(last.queued) >= 2
    /\ last.before # {}

\* C14: each read tool calls its helper with one argument fewer than the
\* helper declares, so for every input and index it returns a text beginning
\* "Error: Unable to search codebase - " (a TypeError, raised before any
\* request) and never a JSON array.
C14_ReadToolsAlwaysFail ==
    last.tool \in {"read_all", "classic_search", "read_latest", "semantic_search"} =>
        /\ last.cause = "TypeError"
        /\ StartsWith(last.text, "Error: Unable to search codebase - ")
        /\ ~ \E q \in ArraysOver(last.before) : last.text = JsonDumps(q)

\* two read tools answered over an index that holds records of the
\* repository asked for
C14_Witness ==
    /\ prev.tool = "classic_search"
    /\ last.tool = "read_latest"
    /\ last.repository = HostedRepository
    /\ last.arg = CommitSha
    /\ WhereRepo(last.before, last.repository) # {}

\* prev and last are two ingests of the same repository that ran at the same
\* time, and both have returned
BothFinished ==
    /\ pc = "idle"
    /\ other.pc = "idle"
    /\ prev.tool = "update"
    /\ prev.concurrent
    /\ last.tool = "update"
    /\ last.repository = prev.repository

\* the call got through its traversal
Walked(call) == call.phase \in {"none", "write"}

\* C15: once two concurrent ingests of R have finished, the index holds at
\* most one record per (path, R); the record of each path a call walked and
\* queued is the record one of the two calls wrote for it (its path and
\* content); and a call that failed in its traversal has contributed none.
C15_ConcurrentIngestLastWriteWins ==
    BothFinished =>
        LET R == last.repository
            writers == {c \in {prev, last} : Walked(c)}
            written == UNION {Range(c.queued) : c \in writers}
        IN  /\ \A x, y \in index :
                  (/\ x.obj.file_path = y.obj.file_path
                   /\ x.obj.repo = y.obj.repo) => x = y
            /\ \A o \in WhereRepo(index, R) :
                  (\E w \in written : w.file_path = o.file_path) =>
                      \E w \in written :
                         /\ w.file_path = o.file_path
                         /\ w.content = o.content
            /\ \A e \in index \ (prev.before \cap last.before) :
                  \E w \in written : w.file_path = e.obj.file_path

=============================================================================
